---- MODULE Spec2Model ----
(***************************************************************************)
(* A model of node-formulator (src/index.js): the dependency-tree resolver *)
(* (resolveDependencies), the parent normalizer (normalizeDepParents), the *)
(* hash fetcher (getHash) and the promise chain that writes the formula.   *)
(*                                                                         *)
(* The dependency tree is the program's input.  Its shape is fixed in the  *)
(* initial state as a parent vector in depth-first pre-order, which is the *)
(* order of the recursive for-in walk; the fields of a node are drawn when *)
(* the walk reads the node.  A location is the sequence of its characters, *)
(* a package name counting as one character.                               *)
(***************************************************************************)
EXTENDS Naturals, Sequences, FiniteSets, TLC

\* ------------------------------------------------------------------ bounds
\* nodes of the tree in the resolver/normalizer specification
MaxNodes == 3
\* nodes of the tree in the specification of the deferred root dependencies
MaxNodesDeferred == 4
\* nodes of the tree in the specification of the whole promise chain
MaxNodesMain == 2
\* entries of the _requiredBy of a deferred root dependency
MaxReq == 1

\* ------------------------------------------------------------ input domain
Names == {"A", "B"}
Version == "1"
Undefined == "undefined"
NoScript == <<>>
NoUrl == <<>>

\* d._id of the package under key n: name@version
IdOf(n) == n \o "@" \o Version

Ids == {IdOf(n) : n \in Names}
Keys == Names \cup Ids

RootLocation(n) == <<"/", n>>
NestedLocation(h, n) == <<"/", h, "/", n>>
Hosts == {"A"}
LocationsOf(n) == {RootLocation(n)} \cup {NestedLocation(h, n) : h \in Hosts}
Locations == UNION {LocationsOf(n) : n \in Names}

HttpsUrl(n) == <<"https://", n>>
GitUrl(n) == <<"git+ssh://", n>>

InstallScript == <<"node-pre-gyp", "install", "--fallback-to-build">>

\* ------------------------------------------------------- Location Tokenizer
\* the characters of s from position i up to the next "/" (the [^\/]+ group)
RECURSIVE SegmentAt(_, _)
SegmentAt(s, i) ==
  IF i > Len(s) \/ s[i] = "/" THEN <<>>
  ELSE <<s[i]>> \o SegmentAt(s, i + 1)

\* re.exec from position i on: every "/" followed by at least one other
\* character starts a match, which captures the run of non-"/" characters
RECURSIVE BranchFrom(_, _)
BranchFrom(s, i) ==
  IF i > Len(s) THEN <<>>
  ELSE IF s[i] = "/" /\ SegmentAt(s, i + 1) /= <<>>
       THEN <<SegmentAt(s, i + 1)>> \o BranchFrom(s, i + 1 + Len(SegmentAt(s, i + 1)))
       ELSE BranchFrom(s, i + 1)

getDepTreeBranch(location) == BranchFrom(location, 1)

\* ------------------------------------------------------------- Hash Fetcher
\* url.indexOf('https://') === 0
IsHttps(url) == Len(url) > 0 /\ url[1] = "https://"

\* the future getHash returns, as it is when getHash returns
getHash(url) ==
  IF url = NoUrl THEN "null"
  ELSE IF ~IsHttps(url) THEN "null"
  ELSE "connecting"

\* -------------------------------------------------------------- state
VARIABLES
  pc,                 \* the step of the promise chain that runs next
  shape,              \* data.dependencies: the parent of every node, pre-order
  node,               \* data.dependencies: the fields of the nodes read so far
  next,               \* the node the walk of resolveDependencies reads next
  native,             \* /\"install\"/.test(json)
  main_sha256,        \* the future of getHash(data._resolved)
  resources,          \* name or identifier -> record, in insertion order
  reverse_location,   \* location -> name or identifier
  resources_sha256s,  \* name or identifier -> future of getHash
  nested_root_deps,   \* name -> node without _resolved, in insertion order
  native_addons,      \* the info objects pushed at line 82
  out,                \* what has been written to the output stream
  error               \* the error the chain was rejected with

vars == <<pc, shape, node, next, native, main_sha256, resources,
          reverse_location, resources_sha256s, nested_root_deps,
          native_addons, out, error>>

\* ------------------------------------------------- objects as key sequences
\* a JavaScript object with string keys is a sequence of entries in insertion
\* order; assigning to an existing key keeps its place
KeysOf(obj) == {obj[i].key : i \in 1..Len(obj)}
Has(obj, k) == k \in KeysOf(obj)
IndexOf(obj, k) == CHOOSE i \in 1..Len(obj) : obj[i].key = k
Get(obj, k) == obj[IndexOf(obj, k)].val
Put(obj, k, v) ==
  IF Has(obj, k) THEN [obj EXCEPT ![IndexOf(obj, k)].val = v]
  ELSE Append(obj, [key |-> k, val |-> v])

\* array.indexOf(x) !== -1
Contains(arr, x) == \E i \in 1..Len(arr) : arr[i] = x

\* ------------------------------------------------------------ the tree
\* p is the parent vector of a forest in depth-first pre-order
IsPreorder(p) ==
  \A j \in 1..Len(p) :
    /\ p[j] < j
    /\ \A k \in (p[j] + 1)..(j - 1) : p[k] >= p[j]

ChildrenOf(p, i) == {j \in 1..Len(p) : p[j] = i}

\* the keys of one dependency mapping are distinct names
Shapes(max) ==
  UNION {{p \in [1..len -> 0..max] :
            /\ IsPreorder(p)
            /\ \A i \in 0..len : Cardinality(ChildrenOf(p, i)) <= Cardinality(Names)}
         : len \in 0..max}

\* the first node after the subtree of node i: where the walk goes on when it
\* does not recurse into d.dependencies
AfterSubtree(p, i) ==
  IF \E j \in (i + 1)..Len(p) : p[j] < i
  THEN CHOOSE j \in (i + 1)..Len(p) :
         /\ p[j] < i
         /\ \A k \in (i + 1)..(j - 1) : p[k] >= i
  ELSE Len(p) + 1

\* the keys of the entries of the same mapping that the loop has passed
SiblingKeys(i) == {node[j].key : j \in {k \in 1..(i - 1) : shape[k] = shape[i]}}

NoNode == [id |-> Undefined, resolved |-> NoUrl, location |-> <<>>,
           requiredBy |-> <<>>, install |-> NoScript]
Unread == [read |-> FALSE, key |-> Undefined, d |-> NoNode]

\* ------------------------------------------------------- the nodes read
\* the lists of at most max locations
ListsOver(S, max) == UNION {[1..len -> S] : len \in 0..max}

\* the lists of no or one location
ShortLists(S) == {<<>>} \cup {<<l>> : l \in S}

\* a node without _id: nothing else of it is read
NoIdNodes == {NoNode}

\* a node with _id and without _resolved
DeferredNodes(n, locs, lists) ==
  {[id |-> IdOf(n), resolved |-> NoUrl, location |-> l, requiredBy |-> rb,
    install |-> NoScript] : l \in locs, rb \in lists}

\* a node with _id and _resolved; _requiredBy is read of a nested one only
ResolvedNodes(n, urls, locs, lists, scripts) ==
  {[id |-> IdOf(n), resolved |-> u, location |-> l,
    requiredBy |-> IF Len(getDepTreeBranch(l)) = 1 THEN <<>> ELSE rb,
    install |-> s] : u \in urls, l \in locs, rb \in lists, s \in scripts}

\* ------------------------------------------------------------ Tree Resolver
\* String.replace(word, by): the first occurrence, the script being its words
RECURSIVE ReplaceFirst(_, _, _)
ReplaceFirst(script, word, by) ==
  IF script = <<>> THEN <<>>
  ELSE IF Head(script) = word THEN by \o Tail(script)
  ELSE <<Head(script)>> \o ReplaceFirst(Tail(script), word, by)

\* line 81
RewriteInstall(script) ==
  ReplaceFirst(ReplaceFirst(script, "node-pre-gyp",
                            <<"node-pre-gyp", "--build-from-source">>),
               "prebuild", <<"prebuild", "--compile">>)

\* line 80
HasInstall(d) == d.install /= NoScript

\* the walk recurses into the children of every node that has an identifier
RecursesWithId(d) == d.id /= Undefined

\* lines 73-77 and 105: the walk recurses into d.dependencies only when the
\* loop body reaches its last line, which both "continue" statements skip
Recurses(d) == d.id /= Undefined /\ d.resolved /= NoUrl

\* line 84
IsRootLevel(d) == Len(getDepTreeBranch(d.location)) = 1

\* the requirers of a further occurrence are put in front
MergeParentsInFront(parent, requiredBy) == requiredBy \o parent

\* line 94: the requirers of a further occurrence are appended
MergeParents(parent, requiredBy) == parent \o requiredBy

\* the future is filed under the bare name of the package
StartHashUnderName(sha256s, key, url) == sha256s @@ (url[2] :> getHash(url))

\* lines 90 and 101: a fetch is started for the new record
StartHash(sha256s, key, url) == sha256s @@ (key :> getHash(url))

\* lines 91, 95, 102 and 114
SetLocation(rl, location, key) ==
  [l \in DOMAIN rl \cup {location} |-> IF l = location THEN key ELSE rl[l]]

\* the info object of lines 79-83 once the loop body is done with it: the name
\* is assigned at line 88 or 99, after the object was pushed at line 82, and
\* a further occurrence of a recorded identifier (line 93) assigns none
InfoName(n, d, res) ==
  IF IsRootLevel(d) THEN (IF Has(res, n) THEN Undefined ELSE n)
  ELSE (IF Has(res, d.id) THEN Undefined ELSE d.id)

\* line 82
PushAddon(addons, n, d, res) ==
  IF HasInstall(d)
  THEN Append(addons, [name |-> InfoName(n, d, res),
                       install |-> RewriteInstall(d.install)])
  ELSE addons

\* lines 79-89 and 97-100: the record stored for a new resource
NewInfo(n, d) ==
  [url |-> d.resolved,
   install |-> IF HasInstall(d) THEN RewriteInstall(d.install) ELSE NoScript,
   nested |-> ~IsRootLevel(d),
   hasParent |-> ~IsRootLevel(d),
   parent |-> IF IsRootLevel(d) THEN <<>> ELSE d.requiredBy,
   name |-> IF IsRootLevel(d) THEN n ELSE d.id]

\* line 86
ThrowsRootError(n, d) ==
  /\ d.id /= Undefined
  /\ d.resolved /= NoUrl
  /\ IsRootLevel(d)
  /\ Has(resources, n)

\* an error thrown while the tree is resolved is caught and the chain goes on
RejectedThenResumed == "await"

\* the chain has no rejection handler: an error thrown in a callback, or a
\* rejected future returned by one, skips every later callback
Rejected == "rejected"

\* one iteration of the for-in loop of resolveDependencies, lines 70-105, for
\* the entry n: d of the mapping
ResolveEntry(n, d) ==
  IF d.id = Undefined THEN
    UNCHANGED <<resources, reverse_location, resources_sha256s,
                nested_root_deps, native_addons>>
  ELSE IF d.resolved = NoUrl THEN
    /\ nested_root_deps' = Put(nested_root_deps, n, d)
    /\ UNCHANGED <<resources, reverse_location, resources_sha256s, native_addons>>
  ELSE
    /\ native_addons' = PushAddon(native_addons, n, d, resources)
    /\ UNCHANGED nested_root_deps
    /\ IF IsRootLevel(d) THEN
         IF Has(resources, n) THEN
           UNCHANGED <<resources, reverse_location, resources_sha256s>>
         ELSE
           /\ resources' = Put(resources, n, NewInfo(n, d))
           /\ resources_sha256s' = StartHash(resources_sha256s, n, d.resolved)
           /\ reverse_location' = SetLocation(reverse_location, d.location, n)
       ELSE
         IF Has(resources, d.id) THEN
           /\ resources' = Put(resources, d.id,
                 [Get(resources, d.id) EXCEPT
                    !.parent = MergeParents(@, d.requiredBy)])
           /\ reverse_location' = SetLocation(reverse_location, d.location, d.id)
           /\ UNCHANGED resources_sha256s
         ELSE
           /\ resources' = Put(resources, d.id, NewInfo(n, d))
           /\ resources_sha256s' = StartHash(resources_sha256s, d.id, d.resolved)
           /\ reverse_location' = SetLocation(reverse_location, d.location, d.id)

\* resolveDependencies, one entry at a time in the order of the recursive
\* walk; the entry is read from the tree when the loop reaches it
ResolveNode(deps) ==
  /\ pc = "resolve"
  /\ next <= Len(shape)
  /\ \E n \in Names \ SiblingKeys(next) : \E d \in deps[n] :
       /\ HasInstall(d) => native
       /\ node' = [node EXCEPT ![next] = [read |-> TRUE, key |-> n, d |-> d]]
       /\ ResolveEntry(n, d)
       /\ IF ThrowsRootError(n, d)
          THEN /\ pc' = Rejected
               /\ error' = "error resolving root dependency"
               /\ UNCHANGED next
          ELSE /\ next' = IF Recurses(d) THEN next + 1 ELSE AfterSubtree(shape, next)
               /\ UNCHANGED <<pc, error>>
  /\ UNCHANGED <<shape, native, main_sha256, out>>

\* --------------------------------------------------------- Parent Normalizer
\* lines 116-120: the requirers of a deferred node, from the i-th on, looked up
\* in the location index and pushed when not yet in the list
RECURSIVE AddRequirers(_, _, _, _)
AddRequirers(parent, requiredBy, rl, i) ==
  IF i > Len(requiredBy) THEN [ok |-> TRUE, parent |-> parent]
  ELSE IF requiredBy[i] \notin DOMAIN rl THEN [ok |-> FALSE, parent |-> parent]
  ELSE AddRequirers(IF Contains(parent, rl[requiredBy[i]]) THEN parent
                    ELSE Append(parent, rl[requiredBy[i]]),
                    requiredBy, rl, i + 1)

\* lines 111-120: one entry of nested_root_deps
PassOneEntry(st, e) ==
  IF ~st.ok THEN st
  ELSE IF ~Has(st.resources, e.key)
  THEN [st EXCEPT !.ok = FALSE,
                  !.error = "error resolving nested root dependency"]
  ELSE LET r == Get(st.resources, e.key)
           rl == SetLocation(st.reverse_location, e.val.location, e.key)
           loop == AddRequirers(IF r.hasParent THEN r.parent ELSE <<>>,
                                e.val.requiredBy, rl, 1)
       IN [ok |-> loop.ok,
           error |-> IF loop.ok THEN st.error
                     ELSE "error normalizing nested root dependency",
           resources |-> Put(st.resources, e.key,
                             [r EXCEPT !.hasParent = TRUE, !.parent = loop.parent]),
           reverse_location |-> rl]

\* the loop left after its first entry
PassOneFirstOnly(st, entries) ==
  IF entries = <<>> THEN st ELSE PassOneEntry(st, Head(entries))

\* lines 110-121: the entries in the order given
RECURSIVE PassOne(_, _)
PassOne(st, entries) ==
  IF entries = <<>> THEN st
  ELSE PassOne(PassOneEntry(st, Head(entries)), Tail(entries))

\* lines 128-132: the pending parents p, from the i-th on
RECURSIVE ResolveParents(_, _, _, _)
ResolveParents(parent, p, rl, i) ==
  IF i > Len(p) THEN [ok |-> TRUE, parent |-> parent]
  ELSE IF p[i] \notin DOMAIN rl THEN [ok |-> FALSE, parent |-> parent]
  ELSE ResolveParents(IF Contains(parent, rl[p[i]]) THEN parent
                      ELSE Append(parent, rl[p[i]]),
                      p, rl, i + 1)

\* an empty list of pending parents is let through
NeverThrowsEmpty(p) == FALSE

\* line 127
ThrowsEmpty(p) == Len(p) = 0

\* lines 123-133: the i-th record
PassTwoEntry(st, i) ==
  LET r == st.resources[i].val
      loop == ResolveParents(<<>>, r.parent, st.reverse_location, 1)
  IN IF ~st.ok \/ ~r.nested THEN st
     ELSE IF ThrowsEmpty(r.parent)
     THEN [st EXCEPT !.ok = FALSE,
                     !.error = "error normalizing nested dependency",
                     !.resources[i].val.parent = <<>>]
     ELSE [st EXCEPT !.ok = loop.ok,
                     !.error = IF loop.ok THEN st.error
                               ELSE "error normalizing nested dependency",
                     !.resources[i].val.parent = loop.parent]

\* lines 122-134: the records from the i-th on
RECURSIVE PassTwo(_, _)
PassTwo(st, i) ==
  IF i > Len(st.resources) THEN st
  ELSE PassTwo(PassTwoEntry(st, i), i + 1)

\* normalizeDepParents, lines 109-135
normalizeDepParents(res, rl, deferred) ==
  PassTwo(PassOne([ok |-> TRUE, error |-> "", resources |-> res,
                   reverse_location |-> rl], deferred), 1)

\* lines 193-196: the walk is over; the parents are normalized and the chain
\* goes on to wait for the hashes, all within the callback of line 191
Normalize ==
  /\ pc = "resolve"
  /\ next > Len(shape)
  /\ LET st == normalizeDepParents(resources, reverse_location, nested_root_deps)
     IN /\ resources' = st.resources
        /\ reverse_location' = st.reverse_location
        /\ pc' = IF st.ok THEN "await" ELSE Rejected
        /\ error' = st.error
  /\ UNCHANGED <<shape, node, next, native, main_sha256, resources_sha256s,
                 nested_root_deps, native_addons, out>>

\* ------------------------------------------ the resolver and the normalizer
ReqLocations == {RootLocation("A"), NestedLocation("A", "B")}

\* the entries the walk can read under the key n
Nodes(n) ==
  NoIdNodes
  \cup DeferredNodes(n, LocationsOf(n), ShortLists(ReqLocations))
  \cup ResolvedNodes(n, {HttpsUrl(n)}, LocationsOf(n),
                     ShortLists(ReqLocations), {NoScript, InstallScript})

\* the state in which the callback of line 191 starts, the header written
InitResolve ==
  /\ pc = "resolve"
  /\ shape \in Shapes(MaxNodes)
  /\ node = [i \in 1..Len(shape) |-> Unread]
  /\ next = 1
  /\ native = TRUE
  /\ main_sha256 = "none"
  /\ resources = <<>>
  /\ reverse_location = <<>>
  /\ resources_sha256s = <<>>
  /\ nested_root_deps = <<>>
  /\ native_addons = <<>>
  /\ out = <<"header", "url_todo", "depends_on">>
  /\ error = ""

NextResolve == ResolveNode([n \in Names |-> Nodes(n)]) \/ Normalize

SpecResolve == InitResolve /\ [][NextResolve]_vars

\* ------------------------------------------- the deferred root dependencies
\* the entries the walk can read under the key n: the nodes without _resolved
\* with longer lists of requirers, and the root-level resolved ones
NodesDeferred(n) ==
  DeferredNodes(n, LocationsOf(n), ListsOver(ReqLocations, MaxReq))
  \cup ResolvedNodes(n, {HttpsUrl(n)}, {RootLocation(n)}, {<<>>}, {NoScript})

InitDeferred ==
  /\ pc = "resolve"
  /\ shape \in Shapes(MaxNodesDeferred)
  /\ node = [i \in 1..Len(shape) |-> Unread]
  /\ next = 1
  /\ native = FALSE
  /\ main_sha256 = "none"
  /\ resources = <<>>
  /\ reverse_location = <<>>
  /\ resources_sha256s = <<>>
  /\ nested_root_deps = <<>>
  /\ native_addons = <<>>
  /\ out = <<"header", "url_todo", "depends_on">>
  /\ error = ""

NextDeferred == ResolveNode([n \in Names |-> NodesDeferred(n)]) \/ Normalize

SpecDeferred == InitDeferred /\ [][NextDeferred]_vars

\* ------------------------------------------------------- the promise chain
MainUrls == {NoUrl, HttpsUrl("M"), GitUrl("M")}

\* the entries the walk can read under the key n
NodesMain(n) ==
  NoIdNodes
  \cup DeferredNodes(n, {RootLocation(n)}, {<<>>})
  \cup ResolvedNodes(n, {HttpsUrl(n), GitUrl(n)}, LocationsOf(n),
                     ShortLists({RootLocation("A")}), {NoScript, InstallScript})

\* the callback of line 158 is about to run
Init ==
  /\ pc = "parse"
  /\ shape = <<>>
  /\ node = <<>>
  /\ next = 1
  /\ native = FALSE
  /\ main_sha256 = "none"
  /\ resources = <<>>
  /\ reverse_location = <<>>
  /\ resources_sha256s = <<>>
  /\ nested_root_deps = <<>>
  /\ native_addons = <<>>
  /\ out = <<>>
  /\ error = ""

\* lines 158-180: the listing is parsed and the head of the formula written;
\* with data._resolved the chain waits for its hash
Parse ==
  /\ pc = "parse"
  /\ \E p \in Shapes(MaxNodesMain), nat \in BOOLEAN, u \in MainUrls :
       /\ shape' = p
       /\ node' = [i \in 1..Len(p) |-> Unread]
       /\ native' = nat
       /\ IF u /= NoUrl
          THEN /\ out' = <<"header", "url">>
               /\ main_sha256' = getHash(u)
               /\ pc' = "hash"
          ELSE /\ out' = <<"header", "url_todo">>
               /\ main_sha256' = "none"
               /\ pc' = "depends"
  /\ UNCHANGED <<next, resources, reverse_location, resources_sha256s,
                 nested_root_deps, native_addons, error>>

\* a future that has a value
IsResolved(f) == f \in {"hex", "null"}

\* line 176: the hash of the formula's own archive has arrived, or the fetch
\* has failed
MainHash ==
  /\ pc = "hash"
  /\ \/ /\ IsResolved(main_sha256)
        /\ out' = Append(out, "sha256")
        /\ pc' = "depends"
        /\ UNCHANGED error
     \/ /\ main_sha256 = "rejected"
        /\ pc' = Rejected
        /\ error' = "transport error"
        /\ UNCHANGED out
  /\ UNCHANGED <<shape, node, next, native, main_sha256, resources,
                 reverse_location, resources_sha256s, nested_root_deps,
                 native_addons>>

\* lines 181-190
DependsOn ==
  /\ pc = "depends"
  /\ out' = Append(out, "depends_on")
  /\ pc' = "resolve"
  /\ UNCHANGED <<shape, node, next, native, main_sha256, resources,
                 reverse_location, resources_sha256s, nested_root_deps,
                 native_addons, error>>

\* resolved once one future is, whatever the others do
PropsResolvedByAny(sha256s) == \E k \in DOMAIN sha256s : IsResolved(sha256s[k])

\* Promise.props: resolved once every future is
PropsResolved(sha256s) == \A k \in DOMAIN sha256s : IsResolved(sha256s[k])

\* Promise.props: rejected as soon as one future is
PropsRejected(sha256s) == \E k \in DOMAIN sha256s : sha256s[k] = "rejected"

\* lines 196-197: the chain waits for Promise.props(resources_sha256s)
AwaitHashes ==
  /\ pc = "await"
  /\ \/ /\ PropsResolved(resources_sha256s)
        /\ pc' = "resources"
        /\ UNCHANGED error
     \/ /\ PropsRejected(resources_sha256s)
        /\ pc' = Rejected
        /\ error' = "transport error"
  /\ UNCHANGED <<shape, node, next, native, main_sha256, resources,
                 reverse_location, resources_sha256s, nested_root_deps,
                 native_addons, out>>

\* the keys in the order of the comparison of strings
StringOrder == <<"A", IdOf("A"), "B", IdOf("B")>>
Rank(k) == CHOOSE j \in 1..Len(StringOrder) : StringOrder[j] = k

\* lines 198-202: the comparison function of the sort
Before(a, b) ==
  IF a.val.nested /\ ~b.val.nested THEN FALSE
  ELSE IF ~a.val.nested /\ b.val.nested THEN TRUE
  ELSE Rank(a.key) < Rank(b.key)

ResourceEntry(k) == "resource " \o k
ResourceEntries == {ResourceEntry(k) : k \in Keys}

\* lines 197-229: one entry for every record
WriteResources ==
  /\ pc = "resources"
  /\ LET res == SortSeq(resources, Before)
     IN out' = out \o [j \in 1..Len(res) |-> ResourceEntry(res[j].key)]
  /\ pc' = "install"
  /\ UNCHANGED <<shape, node, next, native, main_sha256, resources,
                 reverse_location, resources_sha256s, nested_root_deps,
                 native_addons, error>>

AddonEntry(name) == "cd node_modules/" \o name

\* lines 230-252
WriteInstall ==
  /\ pc = "install"
  /\ out' = out \o <<"install">>
              \o (IF native
                  THEN [j \in 1..Len(native_addons) |-> AddonEntry(native_addons[j].name)]
                  ELSE <<>>)
              \o <<"test">>
  /\ pc' = "finish"
  /\ UNCHANGED <<shape, node, next, native, main_sha256, resources,
                 reverse_location, resources_sha256s, nested_root_deps,
                 native_addons, error>>

\* lines 253-258
Finish ==
  /\ pc = "finish"
  /\ pc' = "done"
  /\ UNCHANGED <<shape, node, next, native, main_sha256, resources,
                 reverse_location, resources_sha256s, nested_root_deps,
                 native_addons, out, error>>

\* ------------------------------------------------------ the fetches at work
\* the futures of getHash: that of line 176 and those of lines 90 and 101
Futures == {"main"} \cup DOMAIN resources_sha256s
FutureOf(f) == IF f = "main" THEN main_sha256 ELSE resources_sha256s[f]

SetFuture(f, v) ==
  IF f = "main"
  THEN main_sha256' = v /\ UNCHANGED resources_sha256s
  ELSE resources_sha256s' = [resources_sha256s EXCEPT ![f] = v]
       /\ UNCHANGED main_sha256

\* the events of the fetches are taken between the callbacks of the chain:
\* none while the callback of lines 191-197 walks the tree, none once the
\* process has died
EventLoopTurns == pc \notin {"parse", "resolve", "crashed"}

\* line 39: the response arrives and the callback pipes it into the hash
Response(f) ==
  /\ EventLoopTurns
  /\ FutureOf(f) = "connecting"
  /\ SetFuture(f, "streaming")
  /\ UNCHANGED <<pc, shape, node, next, native, resources, reverse_location,
                 nested_root_deps, native_addons, out, error>>

\* line 39: the request fails before there is a response; the 'error' event
\* of the request that https.get returns has no listener, so that it is
\* thrown as an uncaught exception, and the future stays pending
RequestError(f) ==
  /\ EventLoopTurns
  /\ FutureOf(f) = "connecting"
  /\ SetFuture(f, "uncaught")
  /\ pc' = "crashed"
  /\ error' = "uncaught transport error"
  /\ UNCHANGED <<shape, node, next, native, resources, reverse_location,
                 nested_root_deps, native_addons, out>>

\* lines 41-45: the response ends; hash.read() gives the digest, or null
ResponseEnd(f) ==
  /\ EventLoopTurns
  /\ FutureOf(f) = "streaming"
  /\ \E v \in {"hex", "null"} : SetFuture(f, v)
  /\ UNCHANGED <<pc, shape, node, next, native, resources, reverse_location,
                 nested_root_deps, native_addons, out, error>>

\* line 46: the response fails
ResponseError(f) ==
  /\ EventLoopTurns
  /\ FutureOf(f) = "streaming"
  /\ SetFuture(f, "rejected")
  /\ UNCHANGED <<pc, shape, node, next, native, resources, reverse_location,
                 nested_root_deps, native_addons, out, error>>

Fetch ==
  \E f \in Futures :
    Response(f) \/ RequestError(f) \/ ResponseEnd(f) \/ ResponseError(f)

Next ==
  \/ Parse
  \/ MainHash
  \/ DependsOn
  \/ ResolveNode([n \in Names |-> NodesMain(n)])
  \/ Normalize
  \/ AwaitHashes
  \/ WriteResources
  \/ WriteInstall
  \/ Finish
  \/ Fetch

Spec == Init /\ [][Next]_vars

\* ------------------------------------------------- what the claims speak of
\* resolveDependencies has returned
WalkDone == pc /= "rejected" /\ next > Len(shape)

\* resolveDependencies and normalizeDepParents have returned without throwing
Normalized == pc \in {"await", "resources", "install", "finish", "done"}

\* the nodes the walk has read that have _id and _resolved and a location of
\* other than one segment, and the identifier i
IsOccurrence(j, i) ==
  /\ node[j].read
  /\ node[j].d.id = i
  /\ node[j].d.resolved /= NoUrl
  /\ Len(getDepTreeBranch(node[j].d.location)) /= 1

Occurrences(i) == {j \in 1..Len(shape) : IsOccurrence(j, i)}

\* the requirers of the occurrences of i among the nodes from j on, in the
\* order of the walk
RECURSIVE RequirersFrom(_, _)
RequirersFrom(i, j) ==
  IF j > Len(shape) THEN <<>>
  ELSE (IF IsOccurrence(j, i) THEN node[j].d.requiredBy ELSE <<>>)
       \o RequirersFrom(i, j + 1)

\* the resource identifier of the package at location l: the name of the last
\* deferred root dependency there, else the last resolved node read there,
\* under its name when at root level and under its identifier when nested
ResolvedAt(l) == {j \in 1..Len(shape) :
                    /\ node[j].read
                    /\ node[j].d.id /= Undefined
                    /\ node[j].d.resolved /= NoUrl
                    /\ node[j].d.location = l}
DeferredAt(l) == {j \in 1..Len(nested_root_deps) :
                    nested_root_deps[j].val.location = l}
Last(S) == CHOOSE j \in S : \A k \in S : k <= j
IdentifierAt(l) ==
  IF DeferredAt(l) /= {} THEN nested_root_deps[Last(DeferredAt(l))].key
  ELSE LET j == Last(ResolvedAt(l))
       IN IF Len(getDepTreeBranch(l)) = 1 THEN node[j].key ELSE node[j].d.id

\* the identifiers of the locations of s, each at its first place only
RECURSIVE FirstSeen(_, _)
FirstSeen(s, seen) ==
  IF s = <<>> THEN <<>>
  ELSE IF IdentifierAt(Head(s)) \in seen THEN FirstSeen(Tail(s), seen)
  ELSE <<IdentifierAt(Head(s))>>
       \o FirstSeen(Tail(s), seen \cup {IdentifierAt(Head(s))})

Records(k) == {j \in 1..Len(resources) : resources[j].key = k}

\* C1: once the resolver and the normalizer have returned without throwing,
\* every nested resource record has a non-empty parent list of which every
\* element is a key of the flat resource mapping.
C1_ReferentialClosure ==
  Normalized =>
    \A j \in 1..Len(resources) :
      resources[j].val.nested =>
        /\ resources[j].val.hasParent
        /\ Len(resources[j].val.parent) > 0
        /\ \A q \in 1..Len(resources[j].val.parent) :
             resources[j].val.parent[q] \in KeysOf(resources)

\* a nested record with two parents, a root-level and a nested one
C1_Witness ==
  /\ Normalized
  /\ \E j \in 1..Len(resources) :
       /\ resources[j].val.nested
       /\ resources[j].val.parent = <<"A", IdOf("B")>>

\* C3: an identifier that the walk met as a nested node at several places has
\* exactly one record, and its parents are the identifiers of the requirers
\* of all occurrences in the order of the walk, each once.
C3_MergedParents ==
  Normalized =>
    \A i \in Ids :
      Occurrences(i) /= {} =>
        /\ Cardinality(Records(i)) = 1
        /\ \A j \in Records(i) :
             resources[j].val.parent = FirstSeen(RequirersFrom(i, 1), {})

\* B met twice as a nested node, required by the root-level A and then by the
\* nested B
C3_Witness ==
  /\ Normalized
  /\ Cardinality(Occurrences(IdOf("B"))) = 2
  /\ RequirersFrom(IdOf("B"), 1) = <<RootLocation("A"), NestedLocation("A", "B")>>
  /\ Get(resources, IdOf("B")).parent = <<"A", IdOf("B")>>

\* C4: after resolveDependencies every entry of the native-addon list carries
\* a name that is a key of the flat resource mapping.
C4_AddonsNamed ==
  WalkDone =>
    \A j \in 1..Len(native_addons) : native_addons[j].name \in KeysOf(resources)

\* C8 as claimed: the walk reads the children of every node that has an
\* identifier.
C8_RecursesWithId ==
  WalkDone =>
    \A j \in 1..Len(shape) :
      (shape[j] /= 0 /\ node[shape[j]].read /\ node[shape[j]].d.id /= Undefined)
        => node[j].read

\* C8 amended: the walk reads exactly the children of the nodes that have an
\* identifier and a resolved URL, and every node read with both has a record
\* and an entry of the location index.
C8_RecursesWhenResolved ==
  WalkDone =>
    /\ \A j \in 1..Len(shape) :
         node[j].read <=>
           \/ shape[j] = 0
           \/ /\ node[shape[j]].read
              /\ node[shape[j]].d.id /= Undefined
              /\ node[shape[j]].d.resolved /= NoUrl
    /\ \A j \in 1..Len(shape) :
         (node[j].read /\ node[j].d.id /= Undefined /\ node[j].d.resolved /= NoUrl)
           => /\ node[j].d.location \in DOMAIN reverse_location
              /\ \/ Has(resources, node[j].key)
                 \/ Has(resources, node[j].d.id)

\* a deferred node whose child was skipped beside a resolved one whose child
\* was read
C8_Witness ==
  /\ WalkDone
  /\ \E j, k \in 1..Len(shape) :
       /\ shape[j] /= 0 /\ shape[k] /= 0
       /\ node[shape[j]].read /\ node[shape[j]].d.id /= Undefined
       /\ node[shape[j]].d.resolved = NoUrl /\ ~node[j].read
       /\ node[shape[k]].read /\ node[shape[k]].d.resolved /= NoUrl
       /\ node[k].read

\* C9: between two entries of the walk, and afterwards, the hash futures and
\* the resource records have the same keys.
C9_OneHashPerRecord == DOMAIN resources_sha256s = KeysOf(resources)

\* a further occurrence was merged into a record
C9_Witness ==
  /\ Cardinality(Occurrences(IdOf("B"))) = 2
  /\ Has(resources, "A")
  /\ DOMAIN resources_sha256s = {"A", IdOf("B")}

\* a node the walk has read that has _id and no _resolved
IsDeferred(j) ==
  node[j].read /\ node[j].d.id /= Undefined /\ node[j].d.resolved = NoUrl

Range(s) == {s[j] : j \in 1..Len(s)}

NoDuplicates(s) == \A j, k \in 1..Len(s) : s[j] = s[k] => j = k

\* C7: once the resolver and the normalizer have returned without throwing,
\* the identifier of every requirer of every node read without resolved URL
\* is in the parent list of the record under the node's name, each once.
C7_EveryRequirerIsParent ==
  Normalized =>
    \A j \in 1..Len(shape) :
      IsDeferred(j) =>
        /\ Has(resources, node[j].key)
        /\ NoDuplicates(Get(resources, node[j].key).parent)
        /\ \A q \in 1..Len(node[j].d.requiredBy) :
             /\ node[j].d.requiredBy[q] \in DOMAIN reverse_location
             /\ reverse_location[node[j].d.requiredBy[q]]
                  \in Range(Get(resources, node[j].key).parent)

\* the orders in which the entries of an object can be taken
Orders(obj) == {t \in [1..Len(obj) -> Range(obj)] : Range(t) = Range(obj)}

\* what pass 1 leaves when it takes the deferred entries in the order given:
\* whether it returned, and then the set of parents of every record
PassOneOutcome(entries) ==
  LET st == PassOne([ok |-> TRUE, error |-> "", resources |-> resources,
                     reverse_location |-> reverse_location], entries)
  IN [ok |-> st.ok,
      parents |-> IF st.ok
                  THEN [j \in 1..Len(st.resources) |-> Range(st.resources[j].val.parent)]
                  ELSE <<>>]

\* no deferred entry is required by the location of another deferred entry,
\* unless the location index has that location under that entry's name
RequirersIndexed ==
  \A j, k \in 1..Len(nested_root_deps) :
    j /= k =>
      \A q \in 1..Len(nested_root_deps[k].val.requiredBy) :
        nested_root_deps[k].val.requiredBy[q] = nested_root_deps[j].val.location
          => /\ nested_root_deps[j].val.location \in DOMAIN reverse_location
             /\ reverse_location[nested_root_deps[j].val.location]
                  = nested_root_deps[j].key

\* C10 as claimed: whatever the resolver has recorded, pass 1 succeeds or
\* aborts, and leaves the same sets of parents, in every order of the
\* deferred entries.
C10_OrderIndependent ==
  pc = "resolve" =>
    \A t \in Orders(nested_root_deps) :
      PassOneOutcome(t) = PassOneOutcome(nested_root_deps)

\* C10 amended: the same, when no deferred entry is required by the location
\* of another deferred entry that the location index does not yet have under
\* that entry's name.
C10_OrderIndependentWhenIndexed ==
  (pc = "resolve" /\ RequirersIndexed) =>
    \A t \in Orders(nested_root_deps) :
      PassOneOutcome(t) = PassOneOutcome(nested_root_deps)

\* two deferred entries, one required by the indexed location of the other,
\* and pass 1 gives both records a parent
C10_Witness ==
  /\ pc = "resolve"
  /\ next > Len(shape)
  /\ Len(nested_root_deps) = 2
  /\ RequirersIndexed
  /\ \E j, k \in 1..2 :
       /\ j /= k
       /\ nested_root_deps[k].val.requiredBy = <<nested_root_deps[j].val.location>>
  /\ PassOneOutcome(nested_root_deps).ok
  /\ \A j \in 1..Len(resources) : PassOneOutcome(nested_root_deps).parents[j] /= {}

\* what the callbacks of lines 158-190 write, before the tree is resolved
Heads == {<<"header", "url", "sha256", "depends_on">>,
          <<"header", "url_todo", "depends_on">>}

\* C2 as claimed: when resolveDependencies has thrown the duplicate-root
\* error, nothing has been written to the output stream.
C2_NothingWritten ==
  error = "error resolving root dependency" => out = <<>>

\* C2 amended: when resolveDependencies has thrown the duplicate-root error,
\* the output stream holds the head of the formula, written before the tree
\* was resolved, and nothing else, whatever happens afterwards.
C2_OnlyHeadWritten ==
  error = "error resolving root dependency" => out \in Heads

\* the duplicate-root error was thrown, and a fetch started before it has
\* since delivered its hash
C2_Witness ==
  /\ error = "error resolving root dependency"
  /\ pc = "rejected"
  /\ \E k \in DOMAIN resources_sha256s : resources_sha256s[k] = "hex"

\* C5: no transport error of a fetch is raised outside the future of getHash.
C5_ErrorsRejectTheFuture ==
  \A f \in Futures : FutureOf(f) /= "uncaught"

\* C6: a resource entry is in the output only when every fetch the resolver
\* started has resolved; none is when one of them is pending or rejected.
C6_AllOrNothing ==
  (\E j \in 1..Len(out) : out[j] \in ResourceEntries)
    => \A k \in DOMAIN resources_sha256s : IsResolved(resources_sha256s[k])

\* the entries of two resources are written, after both fetches delivered a
\* digest
C6_Witness ==
  /\ ResourceEntry("A") \in Range(out)
  /\ ResourceEntry(IdOf("B")) \in Range(out)
  /\ resources_sha256s["A"] = "hex"
  /\ resources_sha256s[IdOf("B")] = "hex"

====
